---- MODULE Spec2Model ----
(***************************************************************************)
(* A model of the gpu-server gateway of elabz/local-ai:                    *)
(*   server.py        lifespan, wait_for_llama_server, handle_signal       *)
(*   routes.py        the request handlers and the two SSE generators      *)
(*   llama_client.py  LlamaClient (retry decorator, completion_stream)     *)
(*   config.py        Settings (the set of configured fields)              *)
(*                                                                         *)
(* Three specifications share the handler actions:                         *)
(*   Spec        the gateway's lifecycle with concurrent requests; the     *)
(*               backend answers each call nondeterministically;           *)
(*   CallSpec    one non-streaming request against a backend whose         *)
(*               successive answers are fixed in advance (script);         *)
(*   StreamSpec  one streaming request against a backend whose event       *)
(*               stream is fixed in advance (wire).                        *)
(*                                                                         *)
(* The event loop is single threaded: a handler runs from one await to the *)
(* next without interleaving, so each action is one such run.              *)
(***************************************************************************)
EXTENDS Integers, Sequences, FiniteSets, TLC

VARIABLES
    phase,                    \* position of the gateway process (lifespan)
    exitCode,                 \* status passed to sys.exit, -1 while running
    startupFailure,           \* "none" | "model_missing" | "timeout"
    state,                    \* supervisor state of the spec's state machine
    modelExists,              \* os.path.exists(settings.model_path)
    llama_process,            \* the global: "None" | "Popen"
    child,                    \* the child: "none" | "loading" | "ok" | "exited"
    termSent,                 \* a terminate signal was sent to the child
    killSent,                 \* a kill signal was sent to the child
    elapsed,                  \* loop time - start_time in wait_for_llama_server
    model_loaded_gauge,
    active_requests_gauge,
    inference_requests_total, \* [endpoint, status] -> count
    reqs,                     \* request slot -> request record
    script,                   \* CallSpec: the backend's answers, call by call
    wire,                     \* StreamSpec: the backend's streamed response
    body,                     \* the JSON body the callers send
    messages,                 \* its "messages" (chat) as role/content pairs
    environ,                  \* the environment Settings() is built from
    prompt                    \* TemplateSpec: result of the last template call

vars == <<phase, exitCode, startupFailure, state, modelExists, llama_process,
          child, termSent, killSent, elapsed, model_loaded_gauge,
          active_requests_gauge,
          inference_requests_total, reqs, script, wire, body, messages,
          environ, prompt>>

lifeVars == <<phase, exitCode, startupFailure, state, modelExists,
              llama_process, child, termSent, killSent, elapsed,
              model_loaded_gauge>>

reqVars == <<active_requests_gauge, inference_requests_total, reqs>>

inVars == <<body, messages, environ, prompt>>

(***************************************************************************)
(* Bounds of the model.                                                    *)
(***************************************************************************)
\* concurrent request slots of Spec
MaxRequests == 2
\* wait_for_llama_server's timeout parameter, in sleeps of one second
\* (the code's default is 300)
timeout == 3
\* lines a stream of Spec carries at most
MaxChunks == 2
\* messages of a chat request in InboundSpec and TemplateSpec
MaxMessages == 2
\* text fragments of a generation in PairSpec
MaxFragments == 2
\* length of the backend's script of answers in CallSpec
MaxScript == 4
\* length of the exhaustively enumerated backend streams in StreamSpec
MaxLines == 3

(***************************************************************************)
(* Program constants.                                                      *)
(***************************************************************************)
\* @retry(stop=stop_after_attempt(3), ...)
stop_after_attempt == 3

(***************************************************************************)
(* config.py: the fields Settings declares (class Config: extra="ignore",  *)
(* so no other attribute exists on the settings object), and the methods   *)
(* class LlamaClient defines.  Reading an attribute outside these sets     *)
(* raises AttributeError.                                                  *)
(***************************************************************************)
SettingsFields ==
    {"host", "port", "server_id", "model_path", "n_gpu_layers", "n_ctx",
     "n_batch", "n_ubatch", "n_threads", "cache_reuse", "cache_type_k",
     "cache_type_v", "llama_server_host", "llama_server_port", "extra_args",
     "default_temperature", "default_top_p", "default_top_k",
     "default_repeat_penalty", "default_max_tokens",
     "max_concurrent_requests", "request_timeout", "enable_metrics",
     "metrics_port", "log_level"}

LlamaClientMethods ==
    {"health_check", "get_model_info", "completion", "completion_stream",
     "chat_completion", "_messages_to_prompt", "_llama3_template",
     "_chatml_template", "tokenize", "detokenize"}

(***************************************************************************)
(* The backend's answers to one HTTP call.                                 *)
(***************************************************************************)
Failures == {"conn_error", "http_5xx", "http_4xx"}

Fail(t) ==
    [t |-> t, content |-> "", stop |-> FALSE, tokens_predicted |-> 0,
     tokens_evaluated |-> 0]

\* the JSON of a 200 answer of POST /completion
Answer(c, s, tp, te) ==
    [t |-> "ok", content |-> c, stop |-> s, tokens_predicted |-> tp,
     tokens_evaluated |-> te]

\* such an answer with one token per character and a prompt of one token
Ok(c, s) == Answer(c, s, Len(c), 1)

\* every answer a script of CallSpec may hold
AllAnswers ==
    {Ok(c, s) : c \in {"", "hi"}, s \in BOOLEAN} \cup {Fail(t) : t \in Failures}

\* what the child can answer to a completion or tokenize call in Spec
BackendAnswers(c) ==
    IF c = "ok" THEN {Ok("hi", TRUE)} \cup {Fail(t) : t \in Failures}
    ELSE {Fail("conn_error")}

\* what LlamaClient.health_check gives for GET /health of the child: the
\* "status" of the JSON answer ("None" when the answer has no such key), or
\* "error" when the call raises (connection refused, 5 s timeout, no JSON)
HealthAnswers(c) ==
    CASE c = "ok"      -> {"ok", "no slot available", "None", "error"}
      [] c = "loading" -> {"loading", "None", "error"}
      [] OTHER         -> {"error"}

(***************************************************************************)
(* routes.py, config.py: what a caller sends and what is configured.       *)
(***************************************************************************)
\* an Optional field of a request model: None, or a number
None == [set |-> FALSE, v |-> 0]

Some(n) == [set |-> TRUE, v |-> n]

\* Python's truth value of an Optional number
Truthy(x) == x.set /\ x.v # 0

\* x or d
Or(x, d) == IF Truthy(x) THEN x.v ELSE d

\* the sampling fields of CompletionRequest
SamplingFields ==
    {"max_tokens", "temperature", "top_p", "top_k", "repeat_penalty"}

\* the key each of them has in the payload sent to the backend
PayloadKey(f) == IF f = "max_tokens" THEN "n_predict" ELSE f

SamplingKeys == {PayloadKey(f) : f \in SamplingFields}

\* config.py: the defaults; the three floats are counted in hundredths
default_temperature == 80
default_top_p == 95
default_top_k == 40
default_repeat_penalty == 110
default_max_tokens == 512

Default(f) ==
    CASE f = "max_tokens"     -> default_max_tokens
      [] f = "temperature"    -> default_temperature
      [] f = "top_p"          -> default_top_p
      [] f = "top_k"          -> default_top_k
      [] f = "repeat_penalty" -> default_repeat_penalty

\* a value a caller may give to a sampling field: unset, zero, or a
\* number that is not the default
Given(f) == {None, Some(0), Some(Default(f) + 1)}

\* a body with its required field (prompt, messages) and nothing else
PlainBody ==
    [has_prompt |-> TRUE, has_messages |-> TRUE,
     sampling |-> [f \in SamplingFields |-> None]]

\* the bodies that differ in their sampling fields only
SampledBodies ==
    {[PlainBody EXCEPT !.sampling = sm] :
        sm \in {g \in [SamplingFields ->
                          UNION {Given(f) : f \in SamplingFields}] :
                   \A f \in SamplingFields : g[f] \in Given(f)}}

Message(role, content) == [role |-> role, content |-> content]

NoPrompt == [fn |-> "none", raised |-> "", warned |-> FALSE, text |-> <<>>]

\* one valid completion or chat request and the shipped configuration
PlainInput ==
    /\ body = PlainBody
    /\ messages = <<Message("user", "x")>>
    /\ environ = [CHAT_TEMPLATE |-> "llama3"]
    /\ prompt = NoPrompt

(***************************************************************************)
(* llama_client.py: the payload of completion and completion_stream.       *)
(***************************************************************************)
NoPayload == [k \in {} |-> 0]

\* a payload that carries only the fields the caller has set
SamplingPayloadSparse(sm, stream) ==
    [k \in {PayloadKey(f) : f \in {g \in SamplingFields : sm[g].set}}
           \cup {"stream"} |->
        IF k = "stream" THEN stream
        ELSE LET f == CHOOSE g \in SamplingFields : PayloadKey(g) = k
             IN  sm[f].v]

\* the dict literal of completion (stream False) and completion_stream
\* (stream True), without its prompt
SamplingPayload(sm, stream) ==
    [k \in SamplingKeys \cup {"stream"} |->
        IF k = "stream" THEN stream
        ELSE LET f == CHOOSE g \in SamplingFields : PayloadKey(g) = k
             IN  Or(sm[f], Default(f))]

\* create_completion passes all five sampling fields of the body on;
\* chat_completion passes max_tokens, temperature and top_p only
PassedOn(e, sm) ==
    IF e = "chat"
    THEN [sm EXCEPT !["top_k"] = None, !["repeat_penalty"] = None]
    ELSE sm

(***************************************************************************)
(* llama_client.py: from chat messages to a prompt.  A prompt is kept as   *)
(* the sequence of the pieces that "".join makes one string of.            *)
(***************************************************************************)
Roles == {"system", "user", "assistant"}

Header(role) ==
    CASE role = "system" -> "<|start_header_id|>system<|end_header_id|>\n\n"
      [] role = "user"   -> "<|start_header_id|>user<|end_header_id|>\n\n"
      [] OTHER -> "<|start_header_id|>assistant<|end_header_id|>\n\n"

RECURSIVE Llama3Turns(_)
\* the loop of _llama3_template: a message of another role appends nothing
Llama3Turns(msgs) ==
    IF msgs = <<>> THEN <<>>
    ELSE LET m == Head(msgs)
         IN  (IF m.role \in Roles
              THEN <<Header(m.role), m.content, "<|eot_id|>">>
              ELSE <<>>) \o Llama3Turns(Tail(msgs))

_llama3_template_closed(msgs) == <<"<|begin_of_text|>">> \o Llama3Turns(msgs)

_llama3_template(msgs) ==
    <<"<|begin_of_text|>">> \o Llama3Turns(msgs) \o <<Header("assistant")>>

ImStart(role) ==
    CASE role = "system" -> "<|im_start|>system\\n"
      [] role = "user"   -> "<|im_start|>user\\n"
      [] OTHER -> "<|im_start|>assistant\\n"

RECURSIVE ChatmlTurns(_)
\* the loop of _chatml_template, with the separator that "\\n".join puts
\* after each part but the last
ChatmlTurns(msgs) ==
    IF msgs = <<>> THEN <<>>
    ELSE LET m == Head(msgs)
         IN  (IF m.role \in Roles
              THEN <<ImStart(m.role), m.content, "<|im_end|>", "\\n">>
              ELSE <<>>) \o ChatmlTurns(Tail(msgs))

_chatml_template(msgs) == ChatmlTurns(msgs) \o <<ImStart("assistant")>>

\* str.lower() on the template names of the model
Lower(name) == IF name = "LLAMA3" THEN "llama3" ELSE name

Returned(fn, warned, text) ==
    [fn |-> fn, raised |-> "", warned |-> warned, text |-> text]

Raised(fn, exc) ==
    [fn |-> fn, raised |-> exc, warned |-> FALSE, text |-> <<>>]

\* _messages_to_prompt: Settings declares no chat_template field and
\* ignores extra environment variables, so reading settings.chat_template
\* raises AttributeError whatever CHAT_TEMPLATE is set to
_messages_to_prompt(msgs) ==
    IF "chat_template" \notin SettingsFields
    THEN Raised("_messages_to_prompt", "AttributeError")
    ELSE LET template == Lower(environ.CHAT_TEMPLATE)
         IN  CASE template = "llama3" ->
                    Returned("_messages_to_prompt", FALSE,
                             _llama3_template(msgs))
               [] template = "chatml" ->
                    Returned("_messages_to_prompt", FALSE,
                             _chatml_template(msgs))
               [] OTHER ->
                    Returned("_messages_to_prompt", TRUE,
                             _llama3_template(msgs))

(***************************************************************************)
(* routes.py: the request models.  FastAPI answers 422 without calling     *)
(* the handler when the body does not validate.                            *)
(***************************************************************************)
\* CompletionRequest needs prompt: str; ChatCompletionRequest needs
\* messages: List[Message], a Message needs role: str and content: str
Validates(e) ==
    IF e = "completions" THEN body.has_prompt ELSE body.has_messages

(***************************************************************************)
(* Requests.                                                               *)
(***************************************************************************)
Slots == 1..MaxRequests

\* the "usage" object of a response, built from the backend's result
UsageSwapped(ans) ==
    [prompt_tokens |-> ans.tokens_predicted,
     completion_tokens |-> ans.tokens_evaluated,
     total_tokens |-> ans.tokens_evaluated + ans.tokens_predicted]

Usage(ans) ==
    [prompt_tokens |-> ans.tokens_evaluated,
     completion_tokens |-> ans.tokens_predicted,
     total_tokens |-> ans.tokens_evaluated + ans.tokens_predicted]

NoBody ==
    [text |-> "", finish_reason |-> "none", usage |-> Usage(Fail("none"))]

Idle ==
    [kind |-> "none", stream |-> FALSE, pc |-> "idle", attempts |-> 0,
     calls |-> 0, nread |-> 0, events |-> <<>>, http |-> 0, body |-> NoBody,
     llama_status |-> "", payload |-> NoPayload]

Endpoints == {"completions", "chat"}

ZeroCounters ==
    [e \in Endpoints |-> [s \in {"started", "success", "error"} |-> 0]]

Inc(c, e, s) == [c EXCEPT ![e][s] = @ + 1]

InFlight(r) == reqs[r].pc \notin {"idle", "done", "ended", "cancelled"}

\* the framework hands a request to its handler only between the lifespan's
\* yield and the start of its shutdown
AcceptingWhileChildAlive == phase = "serving" /\ child # "exited"

AcceptingBeforeReady == phase \in {"waiting", "serving"}

Accepting == phase = "serving"

\* handlers already started keep running until the process leaves the loop
Running == phase \in {"serving", "draining"}

FreeSlot(r) ==
    /\ reqs[r].pc = "idle"
    /\ \A q \in Slots : q < r => reqs[q].pc # "idle"

(***************************************************************************)
(* server.py: the supervisor.                                              *)
(***************************************************************************)
\* what lifespan does when os.path.exists(settings.model_path) is false:
\* sys.exit(1), before start_llama_server is reached
ModelMissingAbortAfterLaunch ==
    /\ phase' = "exited"
    /\ exitCode' = 1
    /\ startupFailure' = "model_missing"
    /\ llama_process' = "Popen"
    /\ child' = "loading"
    /\ state' = "Starting"
    /\ UNCHANGED elapsed

ModelMissingAbort ==
    /\ phase' = "exited"
    /\ exitCode' = 1
    /\ startupFailure' = "model_missing"
    /\ UNCHANGED <<state, llama_process, child, elapsed>>

\* lifespan up to the call of wait_for_llama_server: the model-path check,
\* then start_llama_server and the client
lifespan_startup ==
    /\ phase = "boot"
    /\ IF ~modelExists
       THEN ModelMissingAbort
       ELSE /\ llama_process' = "Popen"
            /\ child' = "loading"
            /\ state' = "Starting"
            /\ elapsed' = 0
            /\ phase' = "waiting"
            /\ UNCHANGED <<exitCode, startupFailure>>
    /\ UNCHANGED <<modelExists, termSent, killSent, model_loaded_gauge>>
    /\ UNCHANGED <<reqVars, script, wire, inVars>>

\* the condition on which one poll of wait_for_llama_server returns True
PollReadyAnyStatus(h) == h # "error"

PollReady(h) == h = "ok"

\* one iteration of wait_for_llama_server's loop; on "ok" it returns True
\* and lifespan runs on to its yield
wait_for_llama_server_poll ==
    /\ phase = "waiting"
    /\ elapsed < timeout
    /\ \E h \in HealthAnswers(child) :
         IF PollReady(h)
         THEN /\ model_loaded_gauge' = 1
              /\ state' = "Ready"
              /\ phase' = "serving"
              /\ elapsed' = 0
         ELSE /\ elapsed' = elapsed + 1
              /\ UNCHANGED <<model_loaded_gauge, state, phase>>
    /\ UNCHANGED <<exitCode, startupFailure, modelExists, llama_process,
                   child, termSent, killSent>>
    /\ UNCHANGED <<reqVars, script, wire, inVars>>

\* what lifespan does when wait_for_llama_server returned False
\* (terminate the child, sys.exit(1))
StartupAbortServes ==
    /\ phase' = "serving"
    /\ exitCode' = exitCode
    /\ termSent' = termSent
    /\ killSent' = killSent

StartupAbort ==
    /\ phase' = "exited"
    /\ exitCode' = 1
    /\ termSent' = (termSent \/ llama_process = "Popen")
    /\ killSent' = killSent

\* the loop condition fails: wait_for_llama_server returns False
wait_for_llama_server_timeout ==
    /\ phase = "waiting"
    /\ elapsed >= timeout
    /\ startupFailure' = "timeout"
    /\ state' = "Failed"
    /\ StartupAbort
    /\ UNCHANGED <<modelExists, llama_process, child, elapsed,
                   model_loaded_gauge>>
    /\ UNCHANGED <<reqVars, script, wire, inVars>>

\* the child finishes loading its model
child_ready ==
    /\ child = "loading"
    /\ child' = "ok"
    /\ UNCHANGED <<phase, exitCode, startupFailure, state, modelExists,
                   llama_process, termSent, killSent, elapsed,
                   model_loaded_gauge>>
    /\ UNCHANGED <<reqVars, script, wire, inVars>>

\* the child exits: a crash at any time, or its reaction to a terminate
\* signal; nothing in the gateway observes it
child_exit ==
    /\ child \in {"loading", "ok"}
    /\ child' = "exited"
    /\ UNCHANGED <<phase, exitCode, startupFailure, state, modelExists,
                   llama_process, termSent, killSent, elapsed,
                   model_loaded_gauge>>
    /\ UNCHANGED <<reqVars, script, wire, inVars>>

\* uvicorn.run's graceful shutdown: it stops accepting, lets the handlers
\* in flight finish and then resumes lifespan after its yield
server_shutdown ==
    /\ phase = "serving"
    /\ phase' = "draining"
    /\ UNCHANGED <<exitCode, startupFailure, state, modelExists,
                   llama_process, child, termSent, killSent, elapsed,
                   model_loaded_gauge>>
    /\ UNCHANGED <<reqVars, script, wire, inVars>>

\* lifespan after the yield: gauge to 0, terminate, then wait(timeout=10)
lifespan_cleanup ==
    /\ phase = "draining"
    /\ \A r \in Slots : ~InFlight(r)
    /\ model_loaded_gauge' = 0
    /\ IF llama_process = "Popen"
       THEN /\ termSent' = TRUE /\ killSent' = killSent
            /\ state' = "Draining"
            /\ phase' = "cleanup"
            /\ UNCHANGED exitCode
       ELSE /\ phase' = "exited"
            /\ exitCode' = 0
            /\ UNCHANGED <<termSent, killSent, state>>
    /\ UNCHANGED <<startupFailure, modelExists, llama_process, child,
                   elapsed>>
    /\ UNCHANGED <<reqVars, script, wire, inVars>>

\* llama_process.wait(timeout=10) returns: the child has exited
lifespan_cleanup_wait ==
    /\ phase = "cleanup"
    /\ child = "exited"
    /\ state' = "Stopped"
    /\ phase' = "exited"
    /\ exitCode' = 0
    /\ UNCHANGED <<startupFailure, modelExists, llama_process, child,
                   termSent, killSent, elapsed, model_loaded_gauge>>
    /\ UNCHANGED <<reqVars, script, wire, inVars>>

\* llama_process.kill(): SIGKILL ends the child
KillNotSent == child' = child /\ killSent' = killSent

Kill == child' = "exited" /\ killSent' = TRUE

\* llama_process.wait(timeout=10) raises TimeoutExpired: kill()
lifespan_cleanup_kill ==
    /\ phase = "cleanup"
    /\ child # "exited"
    /\ Kill
    /\ state' = "Stopped"
    /\ phase' = "exited"
    /\ exitCode' = 0
    /\ UNCHANGED <<startupFailure, modelExists, llama_process, termSent,
                   elapsed, model_loaded_gauge>>
    /\ UNCHANGED <<reqVars, script, wire, inVars>>

\* whether llama_process.terminate() raises: Popen.terminate sends SIGTERM,
\* or does nothing when the child has already been waited for
TerminateRaisesWhenGone(c) == c = "exited"

TerminateRaises(c) == FALSE

\* handle_signal: terminate the child if there is one, sys.exit(0)
handle_signal ==
    /\ phase # "exited"
    /\ IF llama_process = "Popen"
       THEN /\ termSent' = TRUE /\ killSent' = killSent
            /\ state' = IF state = "Stopped" THEN state ELSE "Draining"
       ELSE UNCHANGED <<termSent, killSent, state>>
    /\ phase' = "exited"
    /\ exitCode' = IF llama_process = "Popen" /\ TerminateRaises(child)
                   THEN 1 ELSE 0
    /\ UNCHANGED <<startupFailure, modelExists, llama_process, child,
                   elapsed, model_loaded_gauge>>
    /\ UNCHANGED <<reqVars, script, wire, inVars>>

(***************************************************************************)
(* llama_client.py: the retry decorator of LlamaClient.completion.         *)
(* tenacity's default retry condition retries on any exception; with       *)
(* reraise unset the last failure is raised (as RetryError) once           *)
(* stop_after_attempt is reached.                                          *)
(***************************************************************************)
RetryActionNoStop(attempt, ans) ==
    IF ans.t = "ok" THEN "return" ELSE "retry"

RetryActionTwice(attempt, ans) ==
    IF ans.t = "ok" THEN "return"
    ELSE IF attempt >= stop_after_attempt - 1 THEN "raise" ELSE "retry"

RetryAction(attempt, ans) ==
    IF ans.t = "ok" THEN "return"
    ELSE IF attempt >= stop_after_attempt THEN "raise" ELSE "retry"

\* routes.py create_completion: the response built from the backend's result
CompletionResponseAlwaysStop(ans) ==
    [text |-> ans.content, finish_reason |-> "stop", usage |-> Usage(ans)]

CompletionResponse(ans) ==
    [text |-> ans.content,
     finish_reason |-> IF ans.stop THEN "stop" ELSE "length",
     usage |-> Usage(ans)]

\* llama_client.py chat_completion: the OpenAI shape built from the result
ChatResponse(ans) ==
    [text |-> ans.content,
     finish_reason |-> IF ans.stop THEN "stop" ELSE "length",
     usage |-> Usage(ans)]

(***************************************************************************)
(* routes.py: the non-streaming paths of the two completion handlers.      *)
(***************************************************************************)
\* the handler's except/finally: count the error, answer 500, release
Raise500(r, e, gauge) ==
    /\ inference_requests_total' =
           Inc(Inc(inference_requests_total, e, "started"), e, "error")
    /\ active_requests_gauge' = gauge
    /\ reqs' = [reqs EXCEPT ![r] =
           [Idle EXCEPT !.kind = e, !.pc = "done", !.http = 500]]

\* create_completion up to its first await.  stream=FALSE: the first
\* attempt of llama_client.completion is on its way.  stream=TRUE: the
\* EventSourceResponse is returned, its generator not yet started, and the
\* finally clause has run.
\* config.py: max_concurrent_requests
max_concurrent_requests == 1

\* what the handlers make of the number of active requests before they
\* dispatch: nothing, no line of routes.py reads the gauge or the setting
AdmitsBelowLimit(gauge) == gauge < max_concurrent_requests

Admits(gauge) == TRUE

request_rejected(r, e) ==
    /\ Accepting
    /\ FreeSlot(r)
    /\ ~Validates(e)
    /\ reqs' = [reqs EXCEPT ![r] =
           [Idle EXCEPT !.kind = e, !.pc = "done", !.http = 422]]
    /\ UNCHANGED <<inference_requests_total, active_requests_gauge>>
    /\ UNCHANGED <<lifeVars, script, wire, inVars>>

create_completion(r, stream) ==
    /\ Accepting
    /\ FreeSlot(r)
    /\ Validates("completions")
    /\ Admits(active_requests_gauge)
    /\ inference_requests_total' =
           Inc(inference_requests_total, "completions", "started")
    /\ IF stream
       THEN /\ active_requests_gauge' = (active_requests_gauge + 1) - 1
            /\ reqs' = [reqs EXCEPT ![r] =
                   [Idle EXCEPT !.kind = "completions", !.stream = TRUE,
                                !.pc = "stream_start", !.http = 200]]
       ELSE /\ active_requests_gauge' = active_requests_gauge + 1
            /\ reqs' = [reqs EXCEPT ![r] =
                   [Idle EXCEPT !.kind = "completions", !.pc = "awaiting",
                                !.attempts = 1, !.calls = 1,
                                !.payload = SamplingPayload(
                                    PassedOn("completions", body.sampling),
                                    FALSE)]]
    /\ UNCHANGED <<lifeVars, script, wire, inVars>>

\* create_chat_completion up to its first await.  chat_completion first
\* flattens the messages: _messages_to_prompt reads settings.chat_template.
create_chat_completion(r, stream) ==
    /\ Accepting
    /\ FreeSlot(r)
    /\ Validates("chat")
    /\ Admits(active_requests_gauge)
    /\ IF stream
       THEN /\ inference_requests_total' =
                   Inc(inference_requests_total, "chat", "started")
            /\ active_requests_gauge' = (active_requests_gauge + 1) - 1
            /\ reqs' = [reqs EXCEPT ![r] =
                   [Idle EXCEPT !.kind = "chat", !.stream = TRUE,
                                !.pc = "stream_start", !.http = 200]]
       ELSE IF _messages_to_prompt(messages).raised = ""
       THEN /\ inference_requests_total' =
                   Inc(inference_requests_total, "chat", "started")
            /\ active_requests_gauge' = active_requests_gauge + 1
            /\ reqs' = [reqs EXCEPT ![r] =
                   [Idle EXCEPT !.kind = "chat", !.pc = "awaiting",
                                !.attempts = 1, !.calls = 1,
                                !.payload = SamplingPayload(
                                    PassedOn("chat", body.sampling), FALSE)]]
       ELSE Raise500(r, "chat", (active_requests_gauge + 1) - 1)
    /\ UNCHANGED <<lifeVars, script, wire, inVars>>

\* the handler's finally clause (active_requests_gauge.dec()), reached on
\* the return path and on the except path alike
FinallyOnReturnOnly(gauge, act) == IF act = "raise" THEN gauge ELSE gauge - 1

Finally(gauge, act) == gauge - 1

\* the backend answers an attempt of llama_client.completion; the handler
\* runs on to its return, or tenacity goes to sleep before the next attempt
completion_returns(r, ans) ==
    /\ Running
    /\ reqs[r].pc = "awaiting"
    /\ reqs[r].kind \in Endpoints
    /\ LET e == reqs[r].kind
           act == RetryAction(reqs[r].attempts, ans)
       IN  CASE act = "return" ->
                  /\ inference_requests_total' =
                         Inc(inference_requests_total, e, "success")
                  /\ active_requests_gauge' = Finally(active_requests_gauge, act)
                  /\ reqs' = [reqs EXCEPT ![r].pc = "done", ![r].http = 200,
                         ![r].body = IF e = "chat" THEN ChatResponse(ans)
                                     ELSE CompletionResponse(ans)]
              [] act = "raise" ->
                  /\ inference_requests_total' =
                         Inc(inference_requests_total, e, "error")
                  /\ active_requests_gauge' = Finally(active_requests_gauge, act)
                  /\ reqs' = [reqs EXCEPT ![r].pc = "done", ![r].http = 500]
              [] OTHER ->
                  /\ reqs' = [reqs EXCEPT ![r].pc = "backoff"]
                  /\ UNCHANGED <<inference_requests_total,
                                 active_requests_gauge>>
    /\ UNCHANGED <<lifeVars, script, wire, inVars>>

\* wait_exponential has elapsed: the next attempt is dispatched
retry_wake(r) ==
    /\ Running
    /\ reqs[r].pc = "backoff"
    /\ reqs' = [reqs EXCEPT ![r].pc = "awaiting",
                            ![r].attempts = @ + 1, ![r].calls = @ + 1]
    /\ UNCHANGED <<inference_requests_total, active_requests_gauge>>
    /\ UNCHANGED <<lifeVars, script, wire, inVars>>

(***************************************************************************)
(* llama_client.py completion_stream: the lines of the backend's stream.   *)
(*   "other"  a line that does not start with "data: "                     *)
(*   "done"   data: [DONE]                                                 *)
(*   "bad"    data that orjson.loads rejects, or that is no JSON object    *)
(*   "chunk"  data: {"content": ..., "stop": ...}; an absent content is "",*)
(*            an absent stop is FALSE                                      *)
(***************************************************************************)
Line(t, c, s) == [t |-> t, content |-> c, stop |-> s]

Chunk(c, s) == Line("chunk", c, s)

\* every line a wire of StreamSpec may hold
AllLines ==
    {Line("other", "", FALSE), Line("done", "", FALSE), Line("bad", "", FALSE)}
        \cup {Chunk(c, s) : c \in {"", "a", "b"}, s \in BOOLEAN}

\* the lines the backend of Spec sends
SomeLines ==
    {Line("done", "", FALSE), Line("bad", "", FALSE), Chunk("a", FALSE),
     Chunk("a", TRUE)}

\* one pass of the loop over response.aiter_lines(): what is yielded, and
\* whether the loop is left
LineStepAbortOnBad(line) ==
    CASE line.t = "other" -> [yield |-> <<>>, brk |-> FALSE]
      [] line.t = "done"  -> [yield |-> <<>>, brk |-> TRUE]
      [] line.t = "bad"   -> [yield |-> <<>>, brk |-> TRUE]
      [] OTHER -> [yield |-> IF line.content # "" THEN <<line.content>>
                             ELSE <<>>,
                   brk |-> line.stop]

LineStepIgnoreStop(line) ==
    CASE line.t = "other" -> [yield |-> <<>>, brk |-> FALSE]
      [] line.t = "done"  -> [yield |-> <<>>, brk |-> TRUE]
      [] line.t = "bad"   -> [yield |-> <<>>, brk |-> FALSE]
      [] OTHER -> [yield |-> IF line.content # "" THEN <<line.content>>
                             ELSE <<>>,
                   brk |-> FALSE]

LineStep(line) ==
    CASE line.t = "other" -> [yield |-> <<>>, brk |-> FALSE]
      [] line.t = "done"  -> [yield |-> <<>>, brk |-> TRUE]
      [] line.t = "bad"   -> [yield |-> <<>>, brk |-> FALSE]
      [] OTHER -> [yield |-> IF line.content # "" THEN <<line.content>>
                             ELSE <<>>,
                   brk |-> line.stop]

(***************************************************************************)
(* routes.py: the events of the two SSE generators.                        *)
(***************************************************************************)
Event(ty, tx, fr) == [type |-> ty, text |-> tx, finish_reason |-> fr]

DoneEvent == Event("[DONE]", "", "none")

ErrorEvent == Event("error", "", "none")

FinalChunk == Event("chat.completion.chunk", "", "stop")

\* the event one token becomes
TokenEvent(e, token) ==
    IF e = "chat" THEN Event("chat.completion.chunk", token, "null")
    ELSE Event("text_completion", token, "none")

\* what a generator yields once its token loop has ended normally
EndEvents(e) ==
    IF e = "chat" THEN <<FinalChunk, DoneEvent>> ELSE <<DoneEvent>>

\* what a generator yields from its except clause
OnExceptionSilent == <<>>

OnException == <<ErrorEvent>>

\* the generator is started: _stream_completion calls completion_stream,
\* which posts the request; _stream_chat_completion calls
\* llama_client.chat_completion_stream
stream_start(r) ==
    /\ Running
    /\ reqs[r].pc = "stream_start"
    /\ LET method == IF reqs[r].kind = "chat" THEN "chat_completion_stream"
                     ELSE "completion_stream"
       IN  IF method \in LlamaClientMethods
           THEN reqs' = [reqs EXCEPT ![r].pc = "connecting",
                                     ![r].calls = @ + 1,
                                     ![r].payload = SamplingPayload(
                                         PassedOn(reqs[r].kind,
                                                  body.sampling), TRUE)]
           ELSE reqs' = [reqs EXCEPT ![r].pc = "ended",
                                     ![r].events = @ \o OnException]
    /\ UNCHANGED <<inference_requests_total, active_requests_gauge>>
    /\ UNCHANGED <<lifeVars, script, wire, inVars>>

\* the backend's response head arrives: raise_for_status passes on 200,
\* anything else is an exception
stream_response(r, status) ==
    /\ Running
    /\ reqs[r].pc = "connecting"
    /\ IF status = "ok"
       THEN reqs' = [reqs EXCEPT ![r].pc = "reading"]
       ELSE reqs' = [reqs EXCEPT ![r].pc = "ended",
                                 ![r].events = @ \o OnException]
    /\ UNCHANGED <<inference_requests_total, active_requests_gauge>>
    /\ UNCHANGED <<lifeVars, script, wire, inVars>>

\* one line of the backend's stream is read and handled
stream_line(r, line) ==
    /\ Running
    /\ reqs[r].pc = "reading"
    /\ LET st == LineStep(line)
           e == reqs[r].kind
           out == IF st.yield = <<>> THEN <<>>
                  ELSE <<TokenEvent(e, st.yield[1])>>
       IN  reqs' = [reqs EXCEPT
               ![r].nread = @ + 1,
               ![r].events = IF st.brk THEN @ \o out \o EndEvents(e)
                             ELSE @ \o out,
               ![r].pc = IF st.brk THEN "ended" ELSE "reading"]
    /\ UNCHANGED <<inference_requests_total, active_requests_gauge>>
    /\ UNCHANGED <<lifeVars, script, wire, inVars>>

\* the backend closes its stream: the loop over the lines ends
stream_eof(r) ==
    /\ Running
    /\ reqs[r].pc = "reading"
    /\ reqs' = [reqs EXCEPT ![r].pc = "ended",
                            ![r].events = @ \o EndEvents(reqs[r].kind)]
    /\ UNCHANGED <<inference_requests_total, active_requests_gauge>>
    /\ UNCHANGED <<lifeVars, script, wire, inVars>>

\* reading the next line raises (the connection breaks, the read times out)
stream_fault(r) ==
    /\ Running
    /\ reqs[r].pc = "reading"
    /\ reqs' = [reqs EXCEPT ![r].pc = "ended",
                            ![r].events = @ \o OnException]
    /\ UNCHANGED <<inference_requests_total, active_requests_gauge>>
    /\ UNCHANGED <<lifeVars, script, wire, inVars>>

\* the caller goes away: the generator is cancelled where it stands
caller_disconnect(r) ==
    /\ Running
    /\ reqs[r].pc \in {"stream_start", "connecting", "reading"}
    /\ reqs' = [reqs EXCEPT ![r].pc = "cancelled"]
    /\ UNCHANGED <<inference_requests_total, active_requests_gauge>>
    /\ UNCHANGED <<lifeVars, script, wire, inVars>>

(***************************************************************************)
(* routes.py: GET /health and POST /tokenize.                              *)
(***************************************************************************)
health_check(r) ==
    /\ Accepting
    /\ FreeSlot(r)
    /\ reqs' = [reqs EXCEPT ![r] =
           [Idle EXCEPT !.kind = "health", !.pc = "awaiting", !.calls = 1]]
    /\ UNCHANGED <<inference_requests_total, active_requests_gauge>>
    /\ UNCHANGED <<lifeVars, script, wire, inVars>>

\* the handler's answer to what llama_client.health_check gave
HealthResponseUnlessRaised(h) ==
    IF h = "error"
    THEN [http |-> 503, text |-> "Server unhealthy", llama_status |-> ""]
    ELSE [http |-> 200, text |-> "healthy", llama_status |-> h]

HealthResponse(h) ==
    CASE h = "error" ->
           [http |-> 503, text |-> "Server unhealthy", llama_status |-> ""]
      [] h = "ok" ->
           [http |-> 200, text |-> "healthy", llama_status |-> h]
      [] OTHER ->
           [http |-> 503, text |-> "Model not ready", llama_status |-> h]

health_check_returns(r, h) ==
    /\ Running
    /\ reqs[r].pc = "awaiting"
    /\ reqs[r].kind = "health"
    /\ reqs' = [reqs EXCEPT ![r].pc = "done",
                            ![r].http = HealthResponse(h).http,
                            ![r].body.text = HealthResponse(h).text,
                            ![r].llama_status = HealthResponse(h).llama_status]
    /\ UNCHANGED <<inference_requests_total, active_requests_gauge>>
    /\ UNCHANGED <<lifeVars, script, wire, inVars>>

tokenize(r) ==
    /\ Accepting
    /\ FreeSlot(r)
    /\ reqs' = [reqs EXCEPT ![r] =
           [Idle EXCEPT !.kind = "tokenize", !.pc = "awaiting", !.calls = 1]]
    /\ UNCHANGED <<inference_requests_total, active_requests_gauge>>
    /\ UNCHANGED <<lifeVars, script, wire, inVars>>

\* the handler has no try: a failing call is the framework's 500
tokenize_returns(r, ans) ==
    /\ Running
    /\ reqs[r].pc = "awaiting"
    /\ reqs[r].kind = "tokenize"
    /\ reqs' = [reqs EXCEPT ![r].pc = "done",
                            ![r].http = IF ans.t = "ok" THEN 200 ELSE 500]
    /\ UNCHANGED <<inference_requests_total, active_requests_gauge>>
    /\ UNCHANGED <<lifeVars, script, wire, inVars>>

(***************************************************************************)
(* Spec: the gateway from process start, with concurrent requests.         *)
(***************************************************************************)
NoWire == [status |-> "none", lines |-> <<>>, clean |-> TRUE]

Init ==
    /\ phase = "boot"
    /\ exitCode = -1
    /\ startupFailure = "none"
    /\ state = "Stopped"
    /\ modelExists \in BOOLEAN
    /\ llama_process = "None"
    /\ child = "none"
    /\ termSent = FALSE
    /\ killSent = FALSE
    /\ elapsed = 0
    /\ model_loaded_gauge = 0
    /\ active_requests_gauge = 0
    /\ inference_requests_total = ZeroCounters
    /\ reqs = [r \in Slots |-> Idle]
    /\ script = <<>>
    /\ wire = NoWire
    /\ PlainInput

Supervisor ==
    \/ lifespan_startup
    \/ wait_for_llama_server_poll
    \/ wait_for_llama_server_timeout
    \/ child_ready
    \/ child_exit
    \/ server_shutdown
    \/ lifespan_cleanup
    \/ lifespan_cleanup_wait
    \/ lifespan_cleanup_kill
    \/ handle_signal

Handlers ==
    \E r \in Slots :
        \/ \E stream \in BOOLEAN : create_completion(r, stream)
        \/ \E stream \in BOOLEAN : create_chat_completion(r, stream)
        \/ \E ans \in BackendAnswers(child) : completion_returns(r, ans)
        \/ retry_wake(r)
        \/ stream_start(r)
        \/ \E ans \in BackendAnswers(child) : stream_response(r, ans.t)
        \/ \E line \in SomeLines :
              child = "ok" /\ reqs[r].nread < MaxChunks /\ stream_line(r, line)
        \/ child = "ok" /\ stream_eof(r)
        \/ stream_fault(r)
        \/ caller_disconnect(r)
        \/ health_check(r)
        \/ \E h \in HealthAnswers(child) : health_check_returns(r, h)
        \/ tokenize(r)
        \/ \E ans \in BackendAnswers(child) : tokenize_returns(r, ans)

Next ==
    \/ Supervisor
    \/ Handlers

Spec == Init /\ [][Next]_vars

(***************************************************************************)
(* BootSpec: the supervisor with no traffic but the probes of GET /health. *)
(* The body of lifespan and the loop of wait_for_llama_server are          *)
(* sequential code of a running task: a step of the loop that can be       *)
(* taken is taken.                                                         *)
(***************************************************************************)
Probes ==
    \E r \in Slots :
        \/ health_check(r)
        \/ \E h \in HealthAnswers(child) : health_check_returns(r, h)

BootNext == Supervisor \/ Probes

BootSpec ==
    /\ Init
    /\ [][BootNext]_vars
    /\ WF_vars(wait_for_llama_server_poll)
    /\ WF_vars(wait_for_llama_server_timeout)

(***************************************************************************)
(* The gateway once lifespan has reached its yield, the child healthy.     *)
(***************************************************************************)
Serving ==
    /\ phase = "serving"
    /\ exitCode = -1
    /\ startupFailure = "none"
    /\ state = "Ready"
    /\ modelExists = TRUE
    /\ llama_process = "Popen"
    /\ child = "ok"
    /\ termSent = FALSE
    /\ killSent = FALSE
    /\ elapsed = 0
    /\ model_loaded_gauge = 1
    /\ active_requests_gauge = 0
    /\ inference_requests_total = ZeroCounters
    /\ reqs = [r \in Slots |-> Idle]

(***************************************************************************)
(* CallSpec: one non-streaming request; the backend's answer to the n-th   *)
(* call of the request is script[n].                                       *)
(***************************************************************************)
CallInit ==
    /\ Serving
    /\ script \in [1..MaxScript -> AllAnswers]
    /\ wire = NoWire
    /\ PlainInput

CallNext ==
    \/ create_completion(1, FALSE)
    \/ create_chat_completion(1, FALSE)
    \/ /\ reqs[1].attempts \in 1..Len(script)
       /\ completion_returns(1, script[reqs[1].attempts])
    \/ retry_wake(1)

CallSpec == CallInit /\ [][CallNext]_vars

(***************************************************************************)
(* StreamSpec: one streaming request; the backend answers the stream call  *)
(* with wire.status and then sends wire.lines, closing the stream normally *)
(* (clean) or breaking it after the last line.                             *)
(***************************************************************************)
SeqsUpTo(S, n) == UNION {[1..k -> S] : k \in 0..n}

\* the ten-chunk streams with one malformed chunk
TenChunkStreams ==
    {[i \in 1..10 |-> IF i = k THEN Line("bad", "", FALSE)
                      ELSE Chunk(IF i % 2 = 0 THEN "a" ELSE "b", FALSE)] :
        k \in 1..10}

Wires ==
    {[status |-> "ok", lines |-> l, clean |-> c] :
        l \in SeqsUpTo(AllLines, MaxLines), c \in BOOLEAN}
    \cup {[status |-> "ok", lines |-> l, clean |-> TRUE] :
        l \in TenChunkStreams}
    \cup {[status |-> f, lines |-> <<>>, clean |-> TRUE] : f \in Failures}

StreamInit ==
    /\ Serving
    /\ script = <<>>
    /\ wire \in Wires
    /\ PlainInput

StreamNext ==
    \/ create_completion(1, TRUE)
    \/ create_chat_completion(1, TRUE)
    \/ stream_start(1)
    \/ stream_response(1, wire.status)
    \/ /\ reqs[1].nread < Len(wire.lines)
       /\ stream_line(1, wire.lines[reqs[1].nread + 1])
    \/ /\ reqs[1].nread = Len(wire.lines)
       /\ wire.clean
       /\ stream_eof(1)
    \/ /\ reqs[1].nread = Len(wire.lines)
       /\ ~wire.clean
       /\ stream_fault(1)
    \/ caller_disconnect(1)

StreamSpec == StreamInit /\ [][StreamNext]_vars

(***************************************************************************)
(* Claims about the supervisor and the gate (Spec).                        *)
(***************************************************************************)
\* a handler hands a call to the backend client in this step
Dispatches(r) == reqs'[r].calls > reqs[r].calls

\* C1, as stated: a handler dispatches a backend call only while the
\* supervisor is Ready and the child has not exited.
C1_DispatchOnlyWhileChildAlive ==
    [][\A r \in Slots : Dispatches(r) => state = "Ready" /\ child = "ok"]_vars

\* C1, amended: a handler dispatches a backend call only while the
\* supervisor is in the Ready state, that is after wait_for_llama_server
\* returned True and before the shutdown path (lifespan's cleanup,
\* handle_signal) has begun; an exit of the child is not observed and does
\* not stop the dispatching.
C1_DispatchOnlyInReady ==
    [][\A r \in Slots :
          Dispatches(r) =>
              /\ state = "Ready"
              /\ phase \in {"serving", "draining"}
              /\ model_loaded_gauge = 1
              /\ ~termSent]_vars

\* C1 witness: a backend call was dispatched, the supervisor Ready, and the
\* child is gone
C1_Witness ==
    \E r \in Slots :
        /\ reqs[r].calls > 0
        /\ reqs[r].pc = "awaiting"
        /\ state = "Ready"
        /\ child = "exited"

\* C2: after either startup failure the process has exited with a non-zero
\* status, no request was ever accepted, and on the timeout path the child
\* was sent the terminate signal; with the model file missing no request is
\* accepted at all.
C2_StartupFailureExits ==
    /\ startupFailure # "none" =>
          /\ phase = "exited"
          /\ exitCode > 0
          /\ \A r \in Slots : reqs[r] = Idle
          /\ startupFailure = "timeout" => termSent
    /\ ~modelExists =>
          /\ phase \in {"boot", "exited"}
          /\ \A r \in Slots : reqs[r] = Idle
    /\ (phase = "waiting" /\ elapsed >= timeout) =>
          \A r \in Slots : reqs[r] = Idle

\* C2 witness: the readiness timeout was hit and the gateway has exited
C2_Witness ==
    /\ startupFailure = "timeout"
    /\ phase = "exited"
    /\ exitCode = 1
    /\ termSent
    /\ child # "exited"

(***************************************************************************)
(* Claims about one non-streaming call (CallSpec).                         *)
(***************************************************************************)
Failed(i) == script[i].t # "ok"

ConnFailed(i) == script[i].t = "conn_error"

\* C3: a non-streaming completion call makes at most 3 backend attempts,
\* makes none after a successful one, answers 200 from that one, and when
\* every attempt failed answers 500 after exactly 3 attempts.
C3_AtMostThreeAttempts ==
    LET q == reqs[1] IN
    (q.kind = "completions" /\ ~q.stream) =>
        /\ q.attempts <= 3
        /\ q.calls = q.attempts
        /\ \A i \in 1..(q.attempts - 1) : Failed(i)
        /\ q.pc = "backoff" => Failed(q.attempts) /\ q.attempts < 3
        /\ (q.pc = "done" /\ ~Failed(q.attempts)) =>
               /\ q.http = 200
               /\ q.body.text = script[q.attempts].content
        /\ (q.pc = "done" /\ Failed(q.attempts)) =>
               /\ q.http = 500
               /\ q.attempts = 3
        /\ q.pc # "done" => q.http = 0

\* C3 witness: three attempts failed and the request was answered 500
C3_Witness ==
    /\ reqs[1].kind = "completions"
    /\ reqs[1].pc = "done"
    /\ reqs[1].attempts = 3
    /\ reqs[1].http = 500
    /\ \A i \in 1..3 : Failed(i)

\* C4, as stated: three consecutive connection failures followed by a
\* success give exactly 3 backend attempts and a successful response.
C4_ThreeFailuresThenSuccess ==
    LET q == reqs[1] IN
    (/\ q.kind = "completions"
     /\ q.pc = "done"
     /\ \A i \in 1..3 : ConnFailed(i)
     /\ ~Failed(4)) =>
        /\ q.attempts = 3
        /\ q.http = 200

\* C4, amended: two consecutive connection failures followed by a success
\* give exactly 3 backend attempts and a successful response; after three
\* consecutive connection failures the 3 attempts are used up and the call
\* is answered with an error, although a fourth call would have succeeded.
C4_TwoFailuresThenSuccess ==
    LET q == reqs[1] IN
    (q.kind = "completions" /\ q.pc = "done") =>
        /\ (ConnFailed(1) /\ ConnFailed(2) /\ ~Failed(3)) =>
               /\ q.attempts = 3
               /\ q.http = 200
               /\ q.body.text = script[3].content
        /\ ((\A i \in 1..3 : ConnFailed(i)) /\ ~Failed(4)) =>
               /\ q.attempts = 3
               /\ q.http = 500

\* C4 witness: two connection failures, then the third attempt succeeded
C4_Witness ==
    /\ reqs[1].kind = "completions"
    /\ reqs[1].pc = "done"
    /\ ConnFailed(1)
    /\ ConnFailed(2)
    /\ ~Failed(3)
    /\ reqs[1].attempts = 3
    /\ reqs[1].http = 200

\* C5: when the backend answers a non-streaming completion call with a 4xx
\* status the call is not retried: one attempt, and the error is propagated.
C5_NoRetryOnClientError ==
    LET q == reqs[1] IN
    (q.kind = "completions" /\ script[1].t = "http_4xx") =>
        /\ q.attempts <= 1
        /\ q.pc \in {"awaiting", "done"}
        /\ q.pc = "done" => q.http = 500

\* C8: a non-streaming request to either endpoint that the backend answers
\* successfully gets one response, 200 with the backend's text, and nothing
\* is emitted before the backend call has resolved.
C8_OneCompleteResponse ==
    LET q == reqs[1] IN
    (q.kind \in Endpoints /\ ~q.stream) =>
        /\ (q.pc = "done" /\ ~Failed(1)) =>
               /\ q.calls = 1
               /\ q.http = 200
               /\ q.body.text = script[1].content
        /\ q.pc # "done" => q.http = 0 /\ q.body = NoBody

(***************************************************************************)
(* Claims about one streaming request (StreamSpec).                        *)
(***************************************************************************)
\* the lines of the backend's stream the generator has read
Consumed == SubSeq(wire.lines, 1, reqs[1].nread)

IsTerminator(line) ==
    line.t = "done" \/ (line.t = "chunk" /\ line.stop)

\* the position of the first [DONE] or stop-flagged chunk, 0 without one
FirstTerminator(lines) ==
    IF \E i \in 1..Len(lines) : IsTerminator(lines[i])
    THEN CHOOSE i \in 1..Len(lines) :
             /\ IsTerminator(lines[i])
             /\ \A j \in 1..(i - 1) : ~IsTerminator(lines[j])
    ELSE 0

\* the non-empty contents of the well-formed chunks of a stream, in order,
\* up to its terminator (a stop-flagged chunk's own content included)
RECURSIVE ExpectedDeltas(_)
ExpectedDeltas(lines) ==
    IF lines = <<>> THEN <<>>
    ELSE LET h == Head(lines)
             own == IF h.t = "chunk" /\ h.content # "" THEN <<h.content>>
                    ELSE <<>>
         IN  IF h.t = "done" THEN <<>>
             ELSE IF IsTerminator(h) THEN own
             ELSE own \o ExpectedDeltas(Tail(lines))

\* the texts of the token events of a response, in order
RECURSIVE Texts(_)
Texts(events) ==
    IF events = <<>> THEN <<>>
    ELSE IF Head(events).type \in {"text_completion", "chat.completion.chunk"}
            /\ Head(events).finish_reason # "stop"
         THEN <<Head(events).text>> \o Texts(Tail(events))
         ELSE Texts(Tail(events))

\* the backend's stream ends without an exception in the generator
EndsNormally ==
    /\ wire.status = "ok"
    /\ \/ FirstTerminator(wire.lines) > 0
       \/ wire.clean

CompletionStream == reqs[1].kind = "completions" /\ reqs[1].stream

\* C6: a /v1/completions stream that has ended is a run of token events
\* followed by exactly one terminal event, its last: [DONE] when the
\* backend's stream ended normally, an error event when an exception
\* occurred; while it runs it carries token events only.
C6_OneTerminalEvent ==
    LET q == reqs[1]
        n == Len(q.events)
    IN  CompletionStream =>
        /\ q.pc = "ended" =>
               /\ n >= 1
               /\ q.events[n] = IF EndsNormally THEN DoneEvent ELSE ErrorEvent
        /\ \A i \in 1..n :
               (i < n \/ q.pc # "ended") =>
                   /\ q.events[i].type = "text_completion"
                   /\ q.events[i].text # ""
        /\ q.pc \in {"stream_start", "connecting"} => n = 0

\* C6 witness: a stream that delivered a token and then ended in the error
\* event
C6_Witness ==
    /\ CompletionStream
    /\ reqs[1].pc = "ended"
    /\ Len(reqs[1].events) >= 2
    /\ reqs[1].events[Len(reqs[1].events)] = ErrorEvent

\* C7: a streaming chat request against a healthy backend emits one
\* chat.completion.chunk per backend delta, the final chunk with
\* finish_reason "stop", then [DONE].
C7_ChatStreamOrder ==
    LET q == reqs[1]
        d == ExpectedDeltas(wire.lines)
    IN  (q.kind = "chat" /\ q.stream /\ q.pc = "ended" /\ EndsNormally) =>
            q.events = [i \in 1..Len(d) |-> TokenEvent("chat", d[i])]
                           \o <<FinalChunk, DoneEvent>>

\* C9: the deltas delivered are exactly the non-empty contents of the
\* well-formed chunks read so far, in the backend's order, and once the
\* stream has ended those of the whole stream up to its terminator: a
\* malformed chunk costs only itself.
C9_DeltasInOrder ==
    LET q == reqs[1] IN
    (CompletionStream /\ wire.status = "ok") =>
        /\ Texts(q.events) = ExpectedDeltas(Consumed)
        /\ q.pc = "ended" => Texts(q.events) = ExpectedDeltas(wire.lines)
        /\ (q.pc = "ended" /\ wire.lines \in TenChunkStreams) =>
               /\ Len(Texts(q.events)) = 9
               /\ q.events[10] = DoneEvent

\* C9 witness: a ten-chunk stream with one malformed chunk has ended with
\* nine deltas and [DONE]
C9_Witness ==
    /\ CompletionStream
    /\ wire.lines \in TenChunkStreams
    /\ wire.lines[5].t = "bad"
    /\ reqs[1].pc = "ended"
    /\ Len(reqs[1].events) = 10

\* C10: no line after the first [DONE] or stop-flagged chunk is read; on
\* reading it the generator has ended; a stop-flagged chunk's content is
\* the last delta delivered; the deltas never outnumber the lines read.
C10_StopsAtTerminator ==
    LET q == reqs[1]
        k == FirstTerminator(wire.lines)
        t == Texts(q.events)
    IN  CompletionStream =>
        /\ q.nread <= Len(wire.lines)
        /\ Len(t) <= q.nread
        /\ k > 0 =>
               /\ q.nread <= k
               /\ q.nread = k => q.pc = "ended"
               /\ (q.nread = k /\ wire.lines[k].t = "chunk"
                       /\ wire.lines[k].content # "") =>
                      /\ Len(t) >= 1
                      /\ t[Len(t)] = wire.lines[k].content
                      /\ q.events[Len(q.events)] = DoneEvent
        /\ (q.pc = "reading" /\ q.nread > 0) => ~IsTerminator(wire.lines[q.nread])

\* C10 witness: a stop-flagged chunk with content ended the stream and a
\* later chunk of the backend was never read
C10_Witness ==
    /\ CompletionStream
    /\ reqs[1].pc = "ended"
    /\ reqs[1].nread >= 1
    /\ reqs[1].nread < Len(wire.lines)
    /\ wire.lines[reqs[1].nread] = Chunk("a", TRUE)
    /\ wire.lines[reqs[1].nread + 1] = Chunk("b", FALSE)

(***************************************************************************)
(* PayloadSpec: one completion request, streaming or not, for every        *)
(* combination of unset, zero and given sampling fields.                   *)
(***************************************************************************)
PayloadInit ==
    /\ Serving
    /\ script = <<>>
    /\ wire = NoWire
    /\ body \in SampledBodies
    /\ messages = <<Message("user", "x")>>
    /\ environ = [CHAT_TEMPLATE |-> "llama3"]
    /\ prompt = NoPrompt

PayloadNext ==
    \/ create_completion(1, FALSE)
    \/ create_completion(1, TRUE)
    \/ stream_start(1)
    \/ completion_returns(1, Ok("hi", TRUE))
    \/ stream_response(1, "ok")
    \/ stream_eof(1)

PayloadSpec == PayloadInit /\ [][PayloadNext]_vars

(***************************************************************************)
(* PairSpec: a non-streaming request (slot 1) and a streaming request      *)
(* (slot 2) for the same prompt, answered from the same generation of the  *)
(* backend.                                                                *)
(***************************************************************************)
\* what the backend generates for a prompt: text fragments, whether it
\* stopped by itself, the size of the prompt, and how its stream ends
Generations ==
    {[fragments |-> fr, stop |-> sp, tokens_evaluated |-> te, last |-> la] :
        fr \in SeqsUpTo({"a", "b"}, MaxFragments), sp \in BOOLEAN,
        te \in 1..2, la \in {"chunk", "done", "eof"}}

RECURSIVE Join(_)
\* "".join(texts)
Join(texts) ==
    IF texts = <<>> THEN "" ELSE Head(texts) \o Join(Tail(texts))

\* the generation as the answer of a call with "stream": false
AnswerOf(g) ==
    Answer(Join(g.fragments), g.stop, Len(g.fragments), g.tokens_evaluated)

\* the generation as the lines of a call with "stream": true: a chunk per
\* fragment, then a chunk with "stop": true (which also holds the totals,
\* keys completion_stream does not read), a [DONE] line, or nothing
WireOf(g) ==
    [status |-> "ok",
     lines |-> [i \in 1..Len(g.fragments) |-> Chunk(g.fragments[i], FALSE)]
               \o (CASE g.last = "chunk" -> <<Chunk("", TRUE)>>
                      [] g.last = "done"  -> <<Line("done", "", FALSE)>>
                      [] OTHER            -> <<>>),
     clean |-> TRUE]

PairInit ==
    /\ Serving
    /\ PlainInput
    /\ \E g \in Generations :
          /\ script = <<AnswerOf(g)>>
          /\ wire = WireOf(g)

PairNext ==
    \/ create_completion(1, FALSE)
    \/ /\ reqs[1].attempts = 1
       /\ completion_returns(1, script[1])
    \/ create_completion(2, TRUE)
    \/ stream_start(2)
    \/ stream_response(2, wire.status)
    \/ /\ reqs[2].nread < Len(wire.lines)
       /\ stream_line(2, wire.lines[reqs[2].nread + 1])
    \/ /\ reqs[2].nread = Len(wire.lines)
       /\ stream_eof(2)

PairSpec == PairInit /\ [][PairNext]_vars

(***************************************************************************)
(* InboundSpec: one request to /v1/completions or /v1/chat/completions     *)
(* for every shape of body: with or without its required field, and with  *)
(* messages of any role.                                                   *)
(***************************************************************************)
Conversations(roles, contents) ==
    SeqsUpTo({Message(ro, co) : ro \in roles, co \in contents}, MaxMessages)

InboundInit ==
    /\ Serving
    /\ script = <<>>
    /\ wire = NoWire
    /\ body \in {[PlainBody EXCEPT !.has_prompt = hp, !.has_messages = hm] :
                    hp \in BOOLEAN, hm \in BOOLEAN}
    /\ messages \in Conversations(Roles \cup {"tool"}, {"x"})
    /\ body.has_messages \/ messages = <<>>
    /\ environ = [CHAT_TEMPLATE |-> "llama3"]
    /\ prompt = NoPrompt

InboundNext ==
    \/ request_rejected(1, "completions")
    \/ request_rejected(1, "chat")
    \/ create_completion(1, FALSE)
    \/ create_completion(1, TRUE)
    \/ create_chat_completion(1, FALSE)
    \/ create_chat_completion(1, TRUE)
    \/ stream_start(1)
    \/ completion_returns(1, Ok("hi", TRUE))

InboundSpec == InboundInit /\ [][InboundNext]_vars

(***************************************************************************)
(* TemplateSpec: the three prompt functions of LlamaClient, each applied   *)
(* to every list of messages, under every value of CHAT_TEMPLATE.          *)
(***************************************************************************)
TemplateInit ==
    /\ Serving
    /\ script = <<>>
    /\ wire = NoWire
    /\ body = PlainBody
    /\ messages \in Conversations(Roles \cup {"tool"}, {"S", "U"})
    /\ environ \in {[CHAT_TEMPLATE |-> n] :
                       n \in {"llama3", "LLAMA3", "chatml", "mistral"}}
    /\ prompt = NoPrompt

Call_messages_to_prompt ==
    /\ prompt = NoPrompt
    /\ prompt' = _messages_to_prompt(messages)
    /\ UNCHANGED <<lifeVars, reqVars, script, wire, body, messages, environ>>

Call_llama3_template ==
    /\ prompt = NoPrompt
    /\ prompt' = Returned("_llama3_template", FALSE,
                          _llama3_template(messages))
    /\ UNCHANGED <<lifeVars, reqVars, script, wire, body, messages, environ>>

Call_chatml_template ==
    /\ prompt = NoPrompt
    /\ prompt' = Returned("_chatml_template", FALSE,
                          _chatml_template(messages))
    /\ UNCHANGED <<lifeVars, reqVars, script, wire, body, messages, environ>>

TemplateNext ==
    \/ Call_messages_to_prompt
    \/ Call_llama3_template
    \/ Call_chatml_template

TemplateSpec == TemplateInit /\ [][TemplateNext]_vars

(***************************************************************************)
(* Claims about the accounting of requests (Spec).                         *)
(***************************************************************************)
\* the completion and chat requests whose handler or generator has not
\* finished
Unfinished == {r \in Slots : reqs[r].kind \in Endpoints /\ InFlight(r)}

\* those among them whose handler has not returned
InHandler == {r \in Unfinished : ~reqs[r].stream}

\* C11: every request's one increment of the active-request gauge is
\* matched by one decrement when its handler ends, whatever the outcome and
\* the interleaving: the gauge counts the handlers that have not returned,
\* is never negative, and is back at its initial value once every request
\* has completed.
C11_GaugeBalanced ==
    /\ active_requests_gauge = Cardinality(InHandler)
    /\ active_requests_gauge >= 0
    /\ Unfinished = {} => active_requests_gauge = 0

\* C11 witness: one request answered 200 and another 500 after concurrent
\* handling, nothing in flight
C11_Witness ==
    /\ Unfinished = {}
    /\ \E r1, r2 \in Slots :
          /\ reqs[r1].kind = "completions" /\ reqs[r1].http = 200
          /\ reqs[r2].kind = "completions" /\ reqs[r2].http = 500
          /\ reqs[r2].attempts = 3

\* C12: the active-request entry of a streaming request is held from its
\* acceptance until its stream has ended or its caller has disconnected, and
\* no event is emitted after that.
C12_HeldWhileStreaming ==
    /\ active_requests_gauge = Cardinality(Unfinished)
    /\ \A r \in Slots :
          (reqs[r].stream /\ reqs[r].pc = "reading") =>
              active_requests_gauge >= 1

(***************************************************************************)
(* Claims about GET /health (Spec).                                        *)
(***************************************************************************)
HealthDone(r) == reqs[r].kind = "health" /\ reqs[r].pc = "done"

\* C16: GET /health answers 200 "healthy" exactly when the backend's health
\* answer carried the status "ok"; every other status, an answer without a
\* status and a failing call are answered 503.
C16_HealthyIffOk ==
    \A r \in Slots :
       HealthDone(r) =>
          /\ reqs[r].http \in {200, 503}
          /\ reqs[r].http = 200 <=> reqs[r].llama_status = "ok"
          /\ reqs[r].http = 200 <=> reqs[r].body.text = "healthy"

\* C16 witness: a live backend answered with a status other than "ok" and
\* the caller got 503
C16_Witness ==
    \E r \in Slots :
       /\ HealthDone(r)
       /\ reqs[r].llama_status \in {"no slot available", "None"}
       /\ reqs[r].http = 503

(***************************************************************************)
(* Claims about the shutdown of the child (Spec).                          *)
(***************************************************************************)
\* C20: lifespan's shutdown sends the child a terminate signal and waits
\* for it; it sends the kill signal only when the wait found the child
\* still running; whichever way the wait ended, the supervisor is then
\* Stopped and the child is not running.
C20_ShutdownStopsChild ==
    /\ [](/\ phase = "cleanup" =>
               termSent /\ ~killSent /\ state = "Draining"
                        /\ model_loaded_gauge = 0
          /\ (state = "Stopped" /\ llama_process = "Popen") =>
               termSent /\ child = "exited" /\ phase = "exited"
                        /\ exitCode = 0
          /\ killSent => state = "Stopped")
    /\ [][/\ (killSent' /\ ~killSent) =>
               phase = "cleanup" /\ child # "exited"
          /\ (phase = "cleanup" /\ phase' # "cleanup" /\ state' = state) =>
               killSent' = killSent /\ child' = child]_vars

\* C20 witness: the wait ran out and the child was killed
C20_Witness == killSent /\ state = "Stopped" /\ child = "exited"

C13_DefaultsFilledIn ==
    \A r \in Slots :
       reqs[r].calls > 0 =>
          /\ DOMAIN reqs[r].payload = SamplingKeys \cup {"stream"}
          /\ reqs[r].payload["stream"] = reqs[r].stream
          /\ \A f \in SamplingFields :
                ~body.sampling[f].set =>
                    reqs[r].payload[PayloadKey(f)] = Default(f)

\* C13 witness: a streaming call was dispatched for a body with no
\* sampling field set
C13_Witness ==
    /\ \A f \in SamplingFields : ~body.sampling[f].set
    /\ reqs[1].stream /\ reqs[1].calls = 1
    /\ reqs[1].payload["n_predict"] = default_max_tokens
    /\ reqs[1].payload["repeat_penalty"] = default_repeat_penalty

(***************************************************************************)
(* Claims about streaming against non-streaming (PairSpec).                *)
(***************************************************************************)
BothAnswered == reqs[1].pc = "done" /\ reqs[2].pc = "ended"

\* the token totals the events of a stream carry
StreamTotals(events) ==
    {events[i].usage : i \in {j \in 1..Len(events) :
                                 "usage" \in DOMAIN events[j]}}

\* C15 as stated: the streaming and the non-streaming answer to the same
\* generation carry the same concatenated text and the same
\* tokens_predicted / tokens_evaluated totals.
C15_SameTextAndTotals ==
    BothAnswered =>
        /\ Join(Texts(reqs[2].events)) = reqs[1].body.text
        /\ StreamTotals(reqs[2].events) = {reqs[1].body.usage}

\* C15: the streaming and the non-streaming answer to the same generation
\* carry the same concatenated text; the non-streaming response reports
\* the backend's tokens_evaluated and tokens_predicted, and no event of the
\* stream carries a total.
C15_SameText ==
    BothAnswered =>
        /\ reqs[1].http = 200 /\ reqs[2].http = 200
        /\ Join(Texts(reqs[2].events)) = reqs[1].body.text
        /\ reqs[1].body.text = script[1].content
        /\ reqs[1].body.usage.prompt_tokens = script[1].tokens_evaluated
        /\ reqs[1].body.usage.completion_tokens = script[1].tokens_predicted
        /\ StreamTotals(reqs[2].events) = {}
        /\ reqs[2].events[Len(reqs[2].events)] = DoneEvent

\* C15 witness: both requests answered a generation of two fragments
C15_Witness ==
    /\ BothAnswered
    /\ reqs[1].body.text = "ab"
    /\ Len(reqs[2].events) = 3
    /\ reqs[1].body.usage.total_tokens = 4

(***************************************************************************)
(* Claims about the validation of requests (InboundSpec).                  *)
(***************************************************************************)
\* the request of slot 1 is malformed for the endpoint it was sent to
Malformed ==
    \/ reqs[1].kind = "completions" /\ ~body.has_prompt
    \/ reqs[1].kind = "chat" /\ ~body.has_messages
    \/ reqs[1].kind = "chat" /\
          \E i \in 1..Len(messages) : messages[i].role \notin Roles

\* C17: a malformed request (a message of a role other than system, user,
\* assistant; no prompt; no messages) is answered 4xx, no backend call is
\* made for it and the handler does not run.
C17_MalformedRejected ==
    Malformed =>
        /\ reqs[1].pc = "done"
        /\ reqs[1].http \in 400..499
        /\ reqs[1].calls = 0

(***************************************************************************)
(* Claims about the prompt functions (TemplateSpec).                       *)
(***************************************************************************)
\* C18: with a CHAT_TEMPLATE that names neither strategy,
\* _messages_to_prompt raises nothing, logs a warning and returns the
\* prompt of _llama3_template.
C18_UnknownFallsBack ==
    (/\ prompt.fn = "_messages_to_prompt"
     /\ Lower(environ.CHAT_TEMPLATE) \notin {"llama3", "chatml"}) =>
        /\ prompt.raised = ""
        /\ prompt.warned
        /\ prompt.text = _llama3_template(messages)

\* C19: for every conversation (messages of the roles system, user,
\* assistant) the prompt of _llama3_template starts with the begin-of-text
\* marker, then holds for each message in order its header, its content
\* and the end-of-turn marker, and ends with the open assistant header
\* right after the last end-of-turn marker.
C19_Llama3Shape ==
    (/\ prompt.fn = "_llama3_template"
     /\ \A i \in 1..Len(messages) : messages[i].role \in Roles) =>
        LET p == prompt.text
            n == Len(messages)
        IN  /\ prompt.raised = ""
            /\ Len(p) = 3 * n + 2
            /\ p[1] = "<|begin_of_text|>"
            /\ \A i \in 1..n :
                  /\ p[3 * i - 1] = Header(messages[i].role)
                  /\ p[3 * i] = messages[i].content
                  /\ p[3 * i + 1] = "<|eot_id|>"
            /\ p[3 * n + 2] =
                   "<|start_header_id|>assistant<|end_header_id|>\n\n"

\* C19 witness: the prompt of [{system, "S"}, {user, "U"}]
C19_Witness ==
    /\ prompt.fn = "_llama3_template"
    /\ messages = <<Message("system", "S"), Message("user", "U")>>
    /\ Join(prompt.text) =
          "<|begin_of_text|><|start_header_id|>system<|end_header_id|>\n\nS<|eot_id|><|start_header_id|>user<|end_header_id|>\n\nU<|eot_id|><|start_header_id|>assistant<|end_header_id|>\n\n"

C22_NoAdmissionControl ==
    \A r \in Slots :
       /\ (Accepting /\ FreeSlot(r)) =>
             /\ ENABLED create_completion(r, FALSE)
             /\ ENABLED create_chat_completion(r, TRUE)
       /\ (reqs[r].kind = "completions" /\ ~reqs[r].stream
             /\ reqs[r].pc = "awaiting") => reqs[r].calls >= 1

\* C22 witness: more requests than max_concurrent_requests are waiting for
\* the backend at once, each dispatched, and the gauge is above the setting
C22_Witness ==
    /\ active_requests_gauge > max_concurrent_requests
    /\ Cardinality({r \in Slots : reqs[r].kind = "completions"
                       /\ reqs[r].pc = "awaiting"
                       /\ reqs[r].calls >= 1}) > max_concurrent_requests

\* C23: with no file at the configured model path the child is never
\* started and the supervisor never leaves Stopped: lifespan exits with
\* status 1 at the check, which comes before start_llama_server.
C23_NoLaunchWithoutModel ==
    ~modelExists =>
        /\ llama_process = "None"
        /\ child = "none"
        /\ state = "Stopped"
        /\ ~termSent /\ ~killSent
        /\ model_loaded_gauge = 0
        /\ phase \in {"boot", "exited"}
        /\ startupFailure \in {"none", "model_missing"}
        /\ startupFailure = "model_missing" =>
               phase = "exited" /\ exitCode = 1

\* C23 witness: lifespan found no model file and exited
C23_Witness ==
    /\ ~modelExists
    /\ startupFailure = "model_missing"
    /\ phase = "exited" /\ exitCode = 1
    /\ child = "none" /\ state = "Stopped"

(***************************************************************************)
(* Claims about the wait for readiness (BootSpec).                         *)
(***************************************************************************)
\* C24: wait_for_llama_server always comes to an end.  It returns True,
\* setting the model-loaded gauge to 1 and taking the supervisor from
\* Starting to Ready, only at a poll before the timeout that a healthy
\* child answered with "ok"; any other poll leaves it polling one second
\* later; once the timeout has elapsed it returns False and no poll is made.
C24_WaitEndsReadyIffOk ==
    /\ [](phase = "waiting" =>
             /\ model_loaded_gauge = 0
             /\ state = "Starting"
             /\ elapsed <= timeout)
    /\ [][/\ (phase = "waiting" /\ phase' = "serving") =>
               /\ child = "ok"
               /\ elapsed < timeout
               /\ model_loaded_gauge' = 1
               /\ state' = "Ready"
          /\ (phase = "waiting" /\ phase' = "waiting" /\ elapsed' # elapsed) =>
               /\ elapsed' = elapsed + 1
               /\ elapsed < timeout
               /\ model_loaded_gauge' = 0
               /\ state' = state
          /\ (phase = "waiting" /\ elapsed >= timeout /\ phase' # phase) =>
               phase' = "exited"
          /\ (startupFailure' = "timeout" /\ startupFailure # "timeout") =>
               /\ phase = "waiting" /\ elapsed >= timeout
               /\ model_loaded_gauge' = 0
               /\ state' = "Failed"]_vars
    /\ (phase = "waiting") ~> (phase # "waiting")

\* C24 witness: a poll before the timeout was answered "ok": the gateway
\* is Ready with the gauge at 1
C24_Witness ==
    /\ phase = "serving"
    /\ state = "Ready"
    /\ model_loaded_gauge = 1
    /\ child = "ok"

(***************************************************************************)
(* Claims about a child that exits while the gateway serves (Spec).        *)
(***************************************************************************)
\* C25: nothing in the gateway notices that the child has exited while
\* Ready: the supervisor state and the model-loaded gauge stay as they
\* were, requests are still handed to their handlers, every backend call
\* made from then on fails for its request alone (500, the process keeps
\* serving), and GET /health is answered 503.
C25_ChildExitUnnoticed ==
    /\ []((phase = "serving" /\ child = "exited") =>
             /\ state = "Ready"
             /\ model_loaded_gauge = 1
             /\ exitCode = -1
             /\ \A r \in Slots :
                   FreeSlot(r) =>
                      /\ ENABLED create_completion(r, FALSE)
                      /\ ENABLED health_check(r))
    /\ [][\A r \in Slots :
             (/\ child = "exited"
              /\ reqs[r].pc \in {"awaiting", "connecting"}
              /\ reqs'[r].pc # reqs[r].pc) =>
                 /\ phase' = phase
                 /\ state' = state
                 /\ model_loaded_gauge' = model_loaded_gauge
                 /\ reqs'[r].pc = "done" =>
                       reqs'[r].http = IF reqs[r].kind = "health"
                                       THEN 503 ELSE 500
                 /\ reqs'[r].pc = "ended" =>
                       reqs'[r].events[Len(reqs'[r].events)] = ErrorEvent
                 /\ reqs'[r].pc \in {"done", "ended", "backoff",
                                     "cancelled"}]_vars

\* C25 witness: the child has exited, the gateway still counts as Ready,
\* a completion request used up its attempts and a health probe got 503
C25_Witness ==
    /\ phase = "serving" /\ child = "exited"
    /\ state = "Ready" /\ model_loaded_gauge = 1
    /\ \E r1, r2 \in Slots :
          /\ reqs[r1].kind = "completions" /\ reqs[r1].http = 500
          /\ reqs[r2].kind = "health" /\ reqs[r2].http = 503

(***************************************************************************)
(* Further claims about the payload (PayloadSpec).                         *)
(***************************************************************************)
\* C26: a sampling field the caller has set reaches the backend with the
\* caller's value, the values 0 and 0.0 included; the default stands in
\* only for a field the caller left unset.
C26_ExplicitValuesKept ==
    \A r \in Slots :
       reqs[r].calls > 0 =>
          \A f \in SamplingFields :
             reqs[r].payload[PayloadKey(f)] =
                 IF body.sampling[f].set THEN body.sampling[f].v
                 ELSE Default(f)

(***************************************************************************)
(* Claims about the request counters (Spec).                               *)
(***************************************************************************)
\* C27: on each endpoint every request counted as "started" is counted
\* exactly once more, as "success" or as "error", by the time it has
\* finished, streams included: the started count is the sum of the two
\* others and of the requests not yet finished (a stream whose caller
\* has gone is left out of the account).
C27_StartedThenCounted ==
    \A e \in Endpoints :
       inference_requests_total[e]["started"] =
           inference_requests_total[e]["success"]
         + inference_requests_total[e]["error"]
         + Cardinality({r \in Slots :
                           /\ reqs[r].kind = e
                           /\ InFlight(r) \/ reqs[r].pc = "cancelled"})

(***************************************************************************)
(* Claims about the child at the exit of the gateway (Spec).               *)
(***************************************************************************)
\* C28: whichever way the gateway exits after it has launched the child
\* (lifespan's shutdown, the abort after the readiness timeout, the signal
\* handler), the child is not running any more once the gateway has
\* exited.
C28_NoChildAfterExit ==
    (phase = "exited" /\ llama_process = "Popen") => child = "exited"

====
